---- MODULE Spec2Model ----
\* Day-of-month and day-of-week field resolvers of the cron crate:
\* validate_ordinal, ordinals_from_root_specifier, DaysOfMonth::days_in_month
\* and DaysOfWeek::match_day_of, applied to specifiers, months and dates
\* drawn from bounded sets.
EXTENDS Integers, Sequences, FiniteSets, TLC

\* ---------------------------------------------------------------- bounds
\* Largest base value tried as a Point / Weekday / "days before end" input.
MaxPoint == 33
\* Largest occurrence number tried in NthOfMonth.
MaxOccurrence == 7
\* Years FirstYear .. FirstYear + NumYears - 1 are tried, plus two century years.
FirstYear == 2023
NumYears == 8

Years == (FirstYear .. (FirstYear + NumYears - 1)) \cup {2000, 2100}
Months == 1 .. 12

\* ------------------------------------------------- ordinal.rs (qualifier bits)
\* Qualifier bits live in otherwise unused high bits of the ordinal.
IS_LAST_OCCURRENCE == 1073741824
IS_WEEKDAY == 536870912
IS_5TH_OCCURRENCE == 268435456
IS_4TH_OCCURRENCE == 134217728
IS_3RD_OCCURRENCE == 67108864
IS_2ND_OCCURRENCE == 33554432
IS_1ST_OCCURRENCE == 16777216
\* The mask of the five occurrence bits, as a set of single bits.
IS_NTH_OCCURRENCE ==
    {IS_1ST_OCCURRENCE, IS_2ND_OCCURRENCE, IS_3RD_OCCURRENCE,
     IS_4TH_OCCURRENCE, IS_5TH_OCCURRENCE}

\* ordinal & bit != 0, for a single bit
HasBit(ordinal, bit) == (ordinal \div bit) % 2 = 1
\* ordinal & !bit
ClearBit(ordinal, bit) == IF HasBit(ordinal, bit) THEN ordinal - bit ELSE ordinal
\* ordinal | bit
SetBit(ordinal, bit) == IF HasBit(ordinal, bit) THEN ordinal ELSE ordinal + bit
\* ordinal & IS_NTH_OCCURRENCE != 0
HasNth(ordinal) == \E bit \in IS_NTH_OCCURRENCE : HasBit(ordinal, bit)
\* ordinal & !IS_NTH_OCCURRENCE
ClearNth(ordinal) ==
    ClearBit(ClearBit(ClearBit(ClearBit(ClearBit(ordinal,
        IS_1ST_OCCURRENCE), IS_2ND_OCCURRENCE), IS_3RD_OCCURRENCE),
        IS_4TH_OCCURRENCE), IS_5TH_OCCURRENCE)

\* ------------------------------------------------------------ results
Ok(v) == [kind |-> "Ok", val |-> v]
ErrExpression == [kind |-> "Expression", val |-> 0]
ErrExpressionSet == [kind |-> "Expression", val |-> {}]
\* `expect` on None, or an unsigned subtraction below zero
Panic == [kind |-> "Panic", val |-> 0]
PanicSet == [kind |-> "Panic", val |-> {}]
PanicBool == [kind |-> "Panic", val |-> FALSE]

\* ------------------------------------------------ calendar collaborators
\* time_unit::days_in_month(month, year)
is_leap_year(year) == (year % 4 = 0 /\ year % 100 # 0) \/ year % 400 = 0
month_length(month, year) ==
    IF month \in {4, 6, 9, 11} THEN 30
    ELSE IF month = 2 THEN (IF is_leap_year(year) THEN 29 ELSE 28)
    ELSE 31

\* chrono: NaiveDate::weekday().number_from_sunday(), 1 = Sunday .. 7 = Saturday
MonthOffset == <<0, 3, 2, 5, 0, 3, 5, 1, 4, 6, 2, 4>>
number_from_sunday(year, month, day) ==
    LET y == IF month < 3 THEN year - 1 ELSE year
    IN  ((y + (y \div 4) - (y \div 100) + (y \div 400) + MonthOffset[month] + day) % 7) + 1

\* chrono: NaiveDate::from_ymd_opt(..).is_some()
from_ymd_opt_is_some(year, month, day) ==
    /\ month \in 1 .. 12
    /\ day >= 1
    /\ day <= month_length(month, year)

\* ------------------------------------------------------------ specifiers
\* RootSpecifier / SingleSpecifier values, one record shape for all variants:
\* tag is the RootSpecifier variant, inner the SingleSpecifier variant.
Names == {"Fri", "SAT", "sunday", "Tues", "noday"}
Specifier(tag, inner, value, name, occ) ==
    [tag |-> tag, inner |-> inner, value |-> value, name |-> name, occ |-> occ]
PointValues == 0 .. MaxPoint
Inners ==
    {Specifier("", "Point", v, "", 0) : v \in PointValues}
        \cup {Specifier("", "NamedPoint", 0, nm, 0) : nm \in Names}
AllSpecifier == Specifier("All", "", 0, "", 0)
PointSpecifier(v) == Specifier("Point", "Point", v, "", 0)
LastPoint(in) == [in EXCEPT !.tag = "LastPoint"]
NthOfMonth(in, n) == [in EXCEPT !.tag = "NthOfMonth", !.occ = n]
Weekday(v) == Specifier("Weekday", "", v, "", 0)

\* Specifiers the grammar hands to the day-of-month field.
DomSpecifiers ==
    {AllSpecifier}
        \cup {PointSpecifier(v) : v \in PointValues}
        \cup {LastPoint(in) : in \in Inners}
        \cup {Weekday(v) : v \in PointValues}
        \cup {Weekday(SetBit(v, IS_LAST_OCCURRENCE)) : v \in PointValues}
\* Specifiers the grammar hands to the day-of-week field.
DowSpecifiers ==
    {AllSpecifier}
        \cup {PointSpecifier(v) : v \in PointValues}
        \cup {LastPoint(in) : in \in Inners}
        \cup {NthOfMonth(in, n) : in \in Inners, n \in 0 .. MaxOccurrence}

\* ------------------------------------------------- shared default behaviour
\* validate_ordinal_default::<T>(ordinal) with T's inclusive bounds
validate_ordinal_default(min, max, ordinal) ==
    IF ordinal < min \/ ordinal > max THEN ErrExpression ELSE Ok(ordinal)

\* TimeUnitField::supported_ordinals: every unqualified value in bounds
supported_ordinals(min, max) == min .. max

\* ------------------------------------------------------------ DaysOfMonth
DaysOfMonth_inclusive_min == 1
DaysOfMonth_inclusive_max == 31

\* Variant of DaysOfMonth_validate_ordinal that bounds "days before month
\* end" by the field's inclusive_max instead of 28.
DaysOfMonth_validate_ordinal_max_bound(ordinal) ==
    LET base == ClearBit(ClearBit(ordinal, IS_LAST_OCCURRENCE), IS_WEEKDAY)
    IN  IF HasBit(ordinal, IS_LAST_OCCURRENCE)
        THEN IF base > DaysOfMonth_inclusive_max THEN ErrExpression ELSE Ok(ordinal)
        ELSE IF validate_ordinal_default(DaysOfMonth_inclusive_min,
                                         DaysOfMonth_inclusive_max, base).kind # "Ok"
             THEN ErrExpression
             ELSE Ok(ordinal)

DaysOfMonth_validate_ordinal(ordinal) ==
    LET base == ClearBit(ClearBit(ordinal, IS_LAST_OCCURRENCE), IS_WEEKDAY)
    IN  IF HasBit(ordinal, IS_LAST_OCCURRENCE)
        THEN IF base > 28 THEN ErrExpression ELSE Ok(ordinal)
        ELSE IF validate_ordinal_default(DaysOfMonth_inclusive_min,
                                         DaysOfMonth_inclusive_max, base).kind # "Ok"
             THEN ErrExpression
             ELSE Ok(ordinal)

\* The default ordinal_from_name: the day-of-month field has no named points.
DaysOfMonth_ordinal_from_name(name) == ErrExpression

\* The default resolver, for the specifier shapes no day field overrides.
DaysOfMonth_ordinals_from_root_specifier_default(spec) ==
    IF spec.tag = "All"
    THEN Ok(supported_ordinals(DaysOfMonth_inclusive_min, DaysOfMonth_inclusive_max))
    ELSE LET r == DaysOfMonth_validate_ordinal(spec.value)
         IN  IF r.kind = "Ok" THEN Ok({r.val}) ELSE ErrExpressionSet

DaysOfMonth_ordinals_from_root_specifier(spec) ==
    IF spec.tag = "LastPoint"
    THEN LET ordinal ==
                 IF spec.inner = "Point"
                 THEN IF spec.value > 28 THEN ErrExpression ELSE Ok(spec.value)
                 ELSE DaysOfMonth_ordinal_from_name(spec.name)
         IN  IF ordinal.kind = "Ok"
             THEN Ok({SetBit(ordinal.val, IS_LAST_OCCURRENCE)})
             ELSE ErrExpressionSet
    ELSE IF spec.tag = "Weekday"
    THEN LET r == DaysOfMonth_validate_ordinal(spec.value)
         IN  IF r.kind = "Ok" THEN Ok({SetBit(r.val, IS_WEEKDAY)}) ELSE ErrExpressionSet
    ELSE DaysOfMonth_ordinals_from_root_specifier_default(spec)

\* A field value: ordinals is None (some = FALSE) or Some(set).
None == [some |-> FALSE, set |-> {}]
Some(set) == [some |-> TRUE, set |-> set]
from_optional_ordinal_set(ordinal_set) == [ordinals |-> ordinal_set]

DaysOfMonth_ordinals(self) ==
    IF self.ordinals.some THEN self.ordinals.set
    ELSE supported_ordinals(DaysOfMonth_inclusive_min, DaysOfMonth_inclusive_max)

\* Unsigned subtraction: below zero it panics (debug) or wraps (release);
\* both are reported as a Panic outcome.
USub(a, b) == IF a >= b THEN Ok(a - b) ELSE Panic

\* Variant of day_before_end that counts the last day itself as day 1.
day_before_end_one_based(days_in_month, ordinal) ==
    USub(days_in_month, ClearBit(ordinal, IS_LAST_OCCURRENCE) + 1)

\* "Nth day of month before last day of month"
day_before_end(days_in_month, ordinal) ==
    USub(days_in_month, ClearBit(ordinal, IS_LAST_OCCURRENCE))

\* "Extract the day of month without the weekday constraint"
weekday_base(ordinal, days_in_month) ==
    IF ~HasBit(ordinal, IS_LAST_OCCURRENCE)
    THEN ClearBit(ordinal, IS_WEEKDAY)
    ELSE days_in_month

\* Variant of weekday_nudge that sends every Sunday to the following Monday,
\* also when that Monday is in the next month.
weekday_nudge_always_forward(day_of_week, day_of_month, days_in_month) ==
    IF day_of_week = 1
    THEN Ok(day_of_month + 1)
    ELSE IF day_of_week = 7
    THEN IF day_of_month = 1
         THEN Ok(3)
         ELSE USub(day_of_month, 1)
    ELSE Ok(day_of_month)

\* match day_of_week { 1 => .., 7 => .., _ => day_of_month }
weekday_nudge(day_of_week, day_of_month, days_in_month) ==
    IF day_of_week = 1
    THEN IF day_of_month = days_in_month
         THEN USub(day_of_month, 2)
         ELSE Ok(day_of_month + 1)
    ELSE IF day_of_week = 7
    THEN IF day_of_month = 1
         THEN Ok(3)
         ELSE USub(day_of_month, 1)
    ELSE Ok(day_of_month)

\* The closure of days_in_month: one stored ordinal to one day number.
days_in_month_ordinal(ordinal, month_ordinal, year) ==
    LET days_in_month == month_length(month_ordinal, year)
    IN  IF ~HasBit(ordinal, IS_WEEKDAY)
        THEN IF ~HasBit(ordinal, IS_LAST_OCCURRENCE)
             THEN Ok(ordinal)
             ELSE day_before_end(days_in_month, ordinal)
        ELSE LET day_of_month == weekday_base(ordinal, days_in_month)
             IN  IF ~from_ymd_opt_is_some(year, month_ordinal, day_of_month)
                 THEN Panic
                 ELSE weekday_nudge(number_from_sunday(year, month_ordinal, day_of_month),
                                    day_of_month, days_in_month)

DaysOfMonth_days_in_month(self, month_ordinal, year) ==
    LET each == [o \in DaysOfMonth_ordinals(self) |->
                    days_in_month_ordinal(o, month_ordinal, year)]
    IN  IF \E o \in DOMAIN each : each[o].kind # "Ok"
        THEN PanicSet
        ELSE Ok({each[o].val : o \in DOMAIN each})

\* ------------------------------------------------------------ DaysOfWeek
DaysOfWeek_inclusive_min == 1
DaysOfWeek_inclusive_max == 7

\* str::to_lowercase on the names tried
to_lowercase(name) ==
    CASE name = "Fri" -> "fri"
      [] name = "SAT" -> "sat"
      [] name = "Tues" -> "tues"
      [] OTHER -> name

DaysOfWeek_ordinal_from_name(name) ==
    LET lower == to_lowercase(name)
    IN  CASE lower \in {"sun", "sunday"} -> Ok(1)
          [] lower \in {"mon", "monday"} -> Ok(2)
          [] lower \in {"tue", "tues", "tuesday"} -> Ok(3)
          [] lower \in {"wed", "wednesday"} -> Ok(4)
          [] lower \in {"thu", "thurs", "thursday"} -> Ok(5)
          [] lower \in {"fri", "friday"} -> Ok(6)
          [] lower \in {"sat", "saturday"} -> Ok(7)
          [] OTHER -> ErrExpression

DaysOfWeek_validate_ordinal(ordinal) ==
    LET base == ClearBit(ClearNth(ordinal), IS_LAST_OCCURRENCE)
    IN  IF HasNth(ordinal)
        THEN IF base > 5 THEN ErrExpression ELSE Ok(ordinal)
        ELSE IF validate_ordinal_default(DaysOfWeek_inclusive_min,
                                         DaysOfWeek_inclusive_max, base).kind # "Ok"
             THEN ErrExpression
             ELSE Ok(ordinal)

DaysOfWeek_ordinals_from_root_specifier_default(spec) ==
    IF spec.tag = "All"
    THEN Ok(supported_ordinals(DaysOfWeek_inclusive_min, DaysOfWeek_inclusive_max))
    ELSE LET r == DaysOfWeek_validate_ordinal(spec.value)
         IN  IF r.kind = "Ok" THEN Ok({r.val}) ELSE ErrExpressionSet

\* The inner SingleSpecifier of LastPoint / NthOfMonth resolved to a weekday
DaysOfWeek_single(spec) ==
    IF spec.inner = "Point"
    THEN DaysOfWeek_validate_ordinal(spec.value)
    ELSE DaysOfWeek_ordinal_from_name(spec.name)

\* Variant of occurrence_flag that takes every number above 5 as the 5th.
occurrence_flag_clamped(occurrence_number) ==
    CASE occurrence_number = 1 -> Ok(IS_1ST_OCCURRENCE)
      [] occurrence_number = 2 -> Ok(IS_2ND_OCCURRENCE)
      [] occurrence_number = 3 -> Ok(IS_3RD_OCCURRENCE)
      [] occurrence_number = 4 -> Ok(IS_4TH_OCCURRENCE)
      [] occurrence_number >= 5 -> Ok(IS_5TH_OCCURRENCE)
      [] OTHER -> ErrExpression

\* match occurrence_number { 1 => IS_1ST_OCCURRENCE, .. , i => Err }
occurrence_flag(occurrence_number) ==
    CASE occurrence_number = 1 -> Ok(IS_1ST_OCCURRENCE)
      [] occurrence_number = 2 -> Ok(IS_2ND_OCCURRENCE)
      [] occurrence_number = 3 -> Ok(IS_3RD_OCCURRENCE)
      [] occurrence_number = 4 -> Ok(IS_4TH_OCCURRENCE)
      [] occurrence_number = 5 -> Ok(IS_5TH_OCCURRENCE)
      [] OTHER -> ErrExpression

\* Variant of DaysOfWeek_ordinals_from_root_specifier without the special
\* case for LastPoint(Point(0)).
DaysOfWeek_ordinals_from_root_specifier_no_zero(spec) ==
    IF spec.tag = "LastPoint"
    THEN LET day_of_week == DaysOfWeek_single(spec)
         IN  IF day_of_week.kind = "Ok"
             THEN Ok({SetBit(day_of_week.val, IS_LAST_OCCURRENCE)})
             ELSE ErrExpressionSet
    ELSE IF spec.tag = "NthOfMonth"
    THEN LET day_of_week == DaysOfWeek_single(spec)
             flag == occurrence_flag(spec.occ)
         IN  IF day_of_week.kind # "Ok" THEN ErrExpressionSet
             ELSE IF flag.kind # "Ok" THEN ErrExpressionSet
             ELSE Ok({SetBit(day_of_week.val, flag.val)})
    ELSE DaysOfWeek_ordinals_from_root_specifier_default(spec)

DaysOfWeek_ordinals_from_root_specifier(spec) ==
    IF spec.tag = "LastPoint"
    THEN IF spec.inner = "Point" /\ spec.value = 0
         THEN Ok({DaysOfWeek_inclusive_max})
         ELSE LET day_of_week == DaysOfWeek_single(spec)
              IN  IF day_of_week.kind = "Ok"
                  THEN Ok({SetBit(day_of_week.val, IS_LAST_OCCURRENCE)})
                  ELSE ErrExpressionSet
    ELSE IF spec.tag = "NthOfMonth"
    THEN LET day_of_week == DaysOfWeek_single(spec)
             flag == occurrence_flag(spec.occ)
         IN  IF day_of_week.kind # "Ok" THEN ErrExpressionSet
             ELSE IF flag.kind # "Ok" THEN ErrExpressionSet
             ELSE Ok({SetBit(day_of_week.val, flag.val)})
    ELSE DaysOfWeek_ordinals_from_root_specifier_default(spec)

DaysOfWeek_ordinals(self) ==
    IF self.ordinals.some THEN self.ordinals.set
    ELSE supported_ordinals(DaysOfWeek_inclusive_min, DaysOfWeek_inclusive_max)

\* Variant of last_occurrence_match with an inclusive comparison: a window
\* of the final 8 days.
last_occurrence_match_inclusive(day, days_in_month) ==
    LET limit == USub(days_in_month, 7)
    IN  IF limit.kind = "Ok" THEN Ok(day >= limit.val) ELSE PanicBool

\* date.day() > days_in_month(month, year) - 7
last_occurrence_match(day, days_in_month) ==
    LET limit == USub(days_in_month, 7)
    IN  IF limit.kind = "Ok" THEN Ok(day > limit.val) ELSE PanicBool

\* Variant of nth_occurrence_match that divides the day itself instead of
\* the day counted from 0.
nth_occurrence_match_from_one(ordinal, day) ==
    LET bucket == day \div 7
    IN  CASE bucket = 0 -> Ok(HasBit(ordinal, IS_1ST_OCCURRENCE))
          [] bucket = 1 -> Ok(HasBit(ordinal, IS_2ND_OCCURRENCE))
          [] bucket = 2 -> Ok(HasBit(ordinal, IS_3RD_OCCURRENCE))
          [] bucket = 3 -> Ok(HasBit(ordinal, IS_4TH_OCCURRENCE))
          [] bucket = 4 -> Ok(HasBit(ordinal, IS_5TH_OCCURRENCE))
          [] OTHER -> Ok(FALSE)

\* match (date.day() - 1) / 7 { 0 => 1st bit, .. , 4 => 5th bit, _ => false }
nth_occurrence_match(ordinal, day) ==
    LET before == USub(day, 1)
        bucket == before.val \div 7
    IN  IF before.kind # "Ok" THEN PanicBool
        ELSE CASE bucket = 0 -> Ok(HasBit(ordinal, IS_1ST_OCCURRENCE))
               [] bucket = 1 -> Ok(HasBit(ordinal, IS_2ND_OCCURRENCE))
               [] bucket = 2 -> Ok(HasBit(ordinal, IS_3RD_OCCURRENCE))
               [] bucket = 3 -> Ok(HasBit(ordinal, IS_4TH_OCCURRENCE))
               [] bucket = 4 -> Ok(HasBit(ordinal, IS_5TH_OCCURRENCE))
               [] OTHER -> Ok(FALSE)

\* The closure of match_day_of: does one stored ordinal match the date
match_ordinal(ordinal, year, month, day) ==
    IF ClearBit(ClearNth(ordinal), IS_LAST_OCCURRENCE) # number_from_sunday(year, month, day)
    THEN Ok(FALSE)
    ELSE IF ~HasNth(ordinal) /\ ~HasBit(ordinal, IS_LAST_OCCURRENCE)
    THEN Ok(TRUE)
    ELSE IF HasBit(ordinal, IS_LAST_OCCURRENCE)
    THEN last_occurrence_match(day, month_length(month, year))
    ELSE nth_occurrence_match(ordinal, day)

\* Iterator::any over the ordinals in ascending order: it stops at the first
\* match, so only a fault met before any match is raised.
DaysOfWeek_match_day_of(self, year, month, day) ==
    LET each == [o \in DaysOfWeek_ordinals(self) |-> match_ordinal(o, year, month, day)]
        hits == {o \in DOMAIN each : each[o].kind = "Ok" /\ each[o].val = TRUE}
        faults == {o \in DOMAIN each : each[o].kind # "Ok"}
    IN  IF \E f \in faults : \A h \in hits : f < h
        THEN PanicBool
        ELSE Ok(hits # {})

\* ------------------------------------------------------------ state
VARIABLES
    pc,          \* position of the caller: idle, validated, rejected, resolved,
                 \* revalidated, expanded, matched
    field,       \* "none", "DaysOfMonth" or "DaysOfWeek"
    raw,         \* the ordinal last handed to validate_ordinal
    validated,   \* what validate_ordinal returned for it
    specifier,   \* the specifier handed to ordinals_from_root_specifier
    resolved,    \* what ordinals_from_root_specifier returned
    self,        \* the field value built from the resolved set
    date,        \* the month/year (and day) of the last expansion or match
    expanded,    \* what days_in_month returned
    matched      \* what match_day_of returned

vars == <<pc, field, raw, validated, specifier, resolved, self, date, expanded, matched>>

NoDate == [year |-> 0, month |-> 0, day |-> 0]

\* Raw ordinals handed to DaysOfMonth::validate_ordinal
DomRawOrdinals ==
    UNION {{v, SetBit(v, IS_LAST_OCCURRENCE), SetBit(v, IS_WEEKDAY),
            SetBit(SetBit(v, IS_LAST_OCCURRENCE), IS_WEEKDAY)} : v \in PointValues}
\* Raw ordinals handed to DaysOfWeek::validate_ordinal
DowRawOrdinals ==
    UNION {{v, SetBit(v, IS_LAST_OCCURRENCE)}
             \cup {SetBit(v, bit) : bit \in IS_NTH_OCCURRENCE} : v \in PointValues}

Init ==
    /\ pc = "idle"
    /\ field = "none"
    /\ raw = 0
    /\ validated = Ok(0)
    /\ specifier = AllSpecifier
    /\ resolved = Ok({})
    /\ self = from_optional_ordinal_set(None)
    /\ date = NoDate
    /\ expanded = Ok({})
    /\ matched = Ok(FALSE)

\* DaysOfMonth::validate_ordinal(ordinal)
ValidateDaysOfMonth ==
    /\ pc = "idle"
    /\ \E ordinal \in DomRawOrdinals :
        /\ raw' = ordinal
        /\ validated' = DaysOfMonth_validate_ordinal(ordinal)
    /\ pc' = "validated"
    /\ field' = "DaysOfMonth"
    /\ UNCHANGED <<specifier, resolved, self, date, expanded, matched>>

\* DaysOfWeek::validate_ordinal(ordinal)
ValidateDaysOfWeek ==
    /\ pc = "idle"
    /\ \E ordinal \in DowRawOrdinals :
        /\ raw' = ordinal
        /\ validated' = DaysOfWeek_validate_ordinal(ordinal)
    /\ pc' = "validated"
    /\ field' = "DaysOfWeek"
    /\ UNCHANGED <<specifier, resolved, self, date, expanded, matched>>

\* DaysOfMonth::ordinals_from_root_specifier(spec), and on success
\* from_optional_ordinal_set(Some(set))
ResolveDaysOfMonth ==
    /\ pc = "idle"
    /\ \E spec \in DomSpecifiers :
        /\ specifier' = spec
        /\ resolved' = DaysOfMonth_ordinals_from_root_specifier(spec)
    /\ field' = "DaysOfMonth"
    /\ IF resolved'.kind = "Ok"
       THEN /\ pc' = "resolved"
            /\ self' = from_optional_ordinal_set(Some(resolved'.val))
       ELSE /\ pc' = "rejected"
            /\ UNCHANGED self
    /\ UNCHANGED <<raw, validated, date, expanded, matched>>

\* DaysOfWeek::ordinals_from_root_specifier(spec), and on success
\* from_optional_ordinal_set(Some(set))
ResolveDaysOfWeek ==
    /\ pc = "idle"
    /\ \E spec \in DowSpecifiers :
        /\ specifier' = spec
        /\ resolved' = DaysOfWeek_ordinals_from_root_specifier(spec)
    /\ field' = "DaysOfWeek"
    /\ IF resolved'.kind = "Ok"
       THEN /\ pc' = "resolved"
            /\ self' = from_optional_ordinal_set(Some(resolved'.val))
       ELSE /\ pc' = "rejected"
            /\ UNCHANGED self
    /\ UNCHANGED <<raw, validated, date, expanded, matched>>

\* from_optional_ordinal_set(None): the unconstrained field
DefaultField ==
    /\ pc = "idle"
    /\ pc' = "resolved"
    /\ field' \in {"DaysOfMonth", "DaysOfWeek"}
    /\ self' = from_optional_ordinal_set(None)
    /\ resolved' = Ok({})
    /\ specifier' = Specifier("None", "", 0, "", 0)
    /\ UNCHANGED <<raw, validated, date, expanded, matched>>

\* validate_ordinal applied to an ordinal the resolver returned
RevalidateResolved ==
    /\ pc = "resolved"
    /\ self.ordinals.some
    /\ \E ordinal \in self.ordinals.set :
        /\ raw' = ordinal
        /\ validated' = IF field = "DaysOfMonth"
                        THEN DaysOfMonth_validate_ordinal(ordinal)
                        ELSE DaysOfWeek_validate_ordinal(ordinal)
    /\ pc' = "revalidated"
    /\ UNCHANGED <<field, specifier, resolved, self, date, expanded, matched>>

\* DaysOfMonth::days_in_month(&self, month_ordinal, year)
Expand ==
    /\ pc = "resolved"
    /\ field = "DaysOfMonth"
    /\ \E month_ordinal \in Months, year \in Years :
        /\ date' = [year |-> year, month |-> month_ordinal, day |-> 0]
        /\ expanded' = DaysOfMonth_days_in_month(self, month_ordinal, year)
    /\ pc' = "expanded"
    /\ UNCHANGED <<field, raw, validated, specifier, resolved, self, matched>>

\* DaysOfWeek::match_day_of(&self, date), for every existing date
Match ==
    /\ pc = "resolved"
    /\ field = "DaysOfWeek"
    /\ \E year \in Years, month \in Months :
        \E day \in 1 .. month_length(month, year) :
            /\ date' = [year |-> year, month |-> month, day |-> day]
            /\ matched' = DaysOfWeek_match_day_of(self, year, month, day)
    /\ pc' = "matched"
    /\ UNCHANGED <<field, raw, validated, specifier, resolved, self, expanded>>

Next ==
    \/ ValidateDaysOfMonth
    \/ ValidateDaysOfWeek
    \/ ResolveDaysOfMonth
    \/ ResolveDaysOfWeek
    \/ DefaultField
    \/ RevalidateResolved
    \/ Expand
    \/ Match

Spec == Init /\ [][Next]_vars

\* ------------------------------------------------------------ properties
\* Calendar facts of the month/date the last expansion or match was about.
DateLength == month_length(date.month, date.year)
WeekdayOf(d) == number_from_sunday(date.year, date.month, d)
\* The last date of the month that falls on weekday w
LastDateOn(w) ==
    CHOOSE d \in 1 .. DateLength :
        /\ WeekdayOf(d) = w
        /\ \A later \in (d + 1) .. DateLength : WeekdayOf(later) # w
\* How many dates up to and including d fall on weekday w
OccurrencesUpTo(w, d) == Cardinality({e \in 1 .. d : WeekdayOf(e) = w})
\* The weekday a LastPoint / NthOfMonth specifier names, 0 when it names none
NamedWeekday(spec) ==
    IF spec.inner = "Point"
    THEN (IF spec.value \in 1 .. 7 THEN spec.value ELSE 0)
    ELSE CASE spec.name = "Fri" -> 6
           [] spec.name = "SAT" -> 7
           [] spec.name = "sunday" -> 1
           [] spec.name = "Tues" -> 3
           [] OTHER -> 0
\* The single bit that stands for the n-th occurrence, n in 1..5
OccurrenceBit(n) == IS_1ST_OCCURRENCE * (2 ^ (n - 1))

\* C1: expansion never fails. After a successful resolution (or for the
\* default field), days_in_month returns a set for every month and year, and
\* match_day_of returns a boolean for every date.
C1_ExpansionNeverFails ==
    /\ (pc = "expanded" => expanded.kind = "Ok")
    /\ (pc = "matched" => matched.kind = "Ok")

\* C2: every element days_in_month returns is a plain day number between 1
\* and the length of the month.
C2_DaysWithinMonth ==
    (pc = "expanded" /\ expanded.kind = "Ok")
        => \A d \in expanded.val : 1 <= d /\ d <= DateLength

\* C3: the value resolved from LastPoint(Point(n)) expands to exactly the
\* singleton { length(month, year) - n }.
C3_LastPointExpansion ==
    (pc = "expanded" /\ specifier.tag = "LastPoint" /\ specifier.inner = "Point")
        => /\ specifier.value \in 0 .. 28
           /\ expanded = Ok({DateLength - specifier.value})

C3_Witness ==
    /\ pc = "expanded"
    /\ specifier = LastPoint(Specifier("", "Point", 0, "", 0))
    /\ date.month = 2 /\ date.year = 2024
    /\ expanded = Ok({29})

\* The base day of a Weekday specifier in the month of the expansion
C4_Base ==
    IF HasBit(specifier.value, IS_LAST_OCCURRENCE)
    THEN DateLength
    ELSE specifier.value

\* C4: weekday nudge. When the base day b exists in the month, days_in_month
\* returns one day r of the same month that is Monday..Friday; r = b when b
\* is Monday..Friday, a Sunday goes to b+1 (b-2 when b is the last day) and a
\* Saturday to b-1 (3 when b = 1), never more than 2 days from b.
C4_WeekdayNudge ==
    (pc = "expanded" /\ specifier.tag = "Weekday" /\ C4_Base <= DateLength)
        => /\ expanded.kind = "Ok"
           /\ \E r \in 1 .. DateLength :
                /\ expanded.val = {r}
                /\ WeekdayOf(r) \in 2 .. 6
                /\ r - C4_Base \in -2 .. 2
                /\ WeekdayOf(C4_Base) \in 2 .. 6 => r = C4_Base
                /\ WeekdayOf(C4_Base) = 1 =>
                      /\ r = (IF C4_Base = DateLength THEN C4_Base - 2 ELSE C4_Base + 1)
                      /\ WeekdayOf(r) \in {2, 6}
                /\ WeekdayOf(C4_Base) = 7 =>
                      /\ r = (IF C4_Base = 1 THEN 3 ELSE C4_Base - 1)
                      /\ WeekdayOf(r) \in {2, 6}

\* April 30th 2023 is a Sunday and the last day of its month: nudged to the 28th
C4_Witness ==
    /\ pc = "expanded"
    /\ specifier = Weekday(30)
    /\ date.month = 4 /\ date.year = 2023
    /\ WeekdayOf(30) = 1
    /\ expanded = Ok({28})

\* C5: the value holding the single ordinal w | LAST_OCCURRENCE matches
\* exactly one date of the month, the last date whose weekday is w.
C5_LastOccurrenceMatch ==
    (pc = "matched" /\ specifier.tag = "LastPoint"
        /\ ~(specifier.inner = "Point" /\ specifier.value = 0))
        => /\ NamedWeekday(specifier) \in 1 .. 7
           /\ self.ordinals.set = {NamedWeekday(specifier) + IS_LAST_OCCURRENCE}
           /\ matched = Ok(date.day = LastDateOn(NamedWeekday(specifier)))

\* Friday February 23rd 2024 is the last Friday of its month
C5_Witness ==
    /\ pc = "matched"
    /\ specifier = LastPoint(Specifier("", "Point", 6, "", 0))
    /\ date = [year |-> 2024, month |-> 2, day |-> 23]
    /\ matched = Ok(TRUE)

\* C6: the value resolved from NthOfMonth(w, n) matches a date iff the date
\* falls on weekday w and is the n-th such date of its month, which is the
\* same as (day - 1) / 7 = n - 1.
C6_NthOccurrenceMatch ==
    (pc = "matched" /\ specifier.tag = "NthOfMonth")
        => /\ NamedWeekday(specifier) \in 1 .. 7
           /\ specifier.occ \in 1 .. 5
           /\ matched.kind = "Ok"
           /\ matched.val <=>
                /\ WeekdayOf(date.day) = NamedWeekday(specifier)
                /\ OccurrencesUpTo(NamedWeekday(specifier), date.day) = specifier.occ
           /\ matched.val <=>
                /\ WeekdayOf(date.day) = NamedWeekday(specifier)
                /\ (date.day - 1) \div 7 = specifier.occ - 1

\* "Sat#1" matches February 3rd 2024
C6_Witness ==
    /\ pc = "matched"
    /\ specifier = NthOfMonth(Specifier("", "Point", 7, "", 0), 1)
    /\ date = [year |-> 2024, month |-> 2, day |-> 3]
    /\ matched = Ok(TRUE)

\* C7: "days before month end" is bounded when validating and when resolving:
\* n | LAST_OCCURRENCE and LastPoint(Point(n)) are rejected with an Expression
\* error for n > 28 and accepted for n in 0..28, the resolver returning
\* { n | LAST_OCCURRENCE }.
C7_DaysBeforeEndBound ==
    /\ (pc = "validated" /\ field = "DaysOfMonth"
            /\ raw - IS_LAST_OCCURRENCE \in PointValues)
        => IF raw - IS_LAST_OCCURRENCE > 28
           THEN validated.kind = "Expression"
           ELSE validated = Ok(raw)
    /\ (pc \in {"resolved", "rejected"} /\ field = "DaysOfMonth"
            /\ specifier.tag = "LastPoint" /\ specifier.inner = "Point")
        => IF specifier.value > 28
           THEN pc = "rejected" /\ resolved.kind = "Expression"
           ELSE pc = "resolved" /\ resolved = Ok({specifier.value + IS_LAST_OCCURRENCE})

C7_Witness ==
    /\ pc = "validated"
    /\ field = "DaysOfMonth"
    /\ raw = 29 + IS_LAST_OCCURRENCE
    /\ validated.kind = "Expression"

\* C8: NthOfMonth(inner, n) with a valid inner weekday w is rejected with an
\* Expression error for every n outside 1..5 and otherwise resolves to the
\* singleton of w with exactly the occurrence bit of n; an invalid inner
\* weekday is rejected for every n.
C8_NthOfMonthResolution ==
    (pc \in {"resolved", "rejected"} /\ field = "DaysOfWeek"
        /\ specifier.tag = "NthOfMonth")
        => IF NamedWeekday(specifier) \in 1 .. 7 /\ specifier.occ \in 1 .. 5
           THEN /\ pc = "resolved"
                /\ resolved = Ok({NamedWeekday(specifier) + OccurrenceBit(specifier.occ)})
           ELSE /\ pc = "rejected"
                /\ resolved.kind = "Expression"

C8_Witness ==
    /\ pc = "rejected"
    /\ field = "DaysOfWeek"
    /\ specifier = NthOfMonth(Specifier("", "Point", 3, "", 0), 6)
    /\ resolved.kind = "Expression"

\* C9: day-of-week LastPoint(Point(0)) resolves to { 7 } without the
\* LAST_OCCURRENCE bit and so matches exactly the Saturdays; LastPoint of any
\* other w in 1..7 resolves to { w | LAST_OCCURRENCE }, and of a Point above 7
\* to an error.
C9_LastPointZeroIsSaturday ==
    (field = "DaysOfWeek" /\ specifier.tag = "LastPoint" /\ specifier.inner = "Point")
        => /\ pc \in {"resolved", "rejected", "revalidated", "matched"}
           /\ specifier.value = 0 =>
                /\ resolved = Ok({7})
                /\ pc = "matched" => matched = Ok(WeekdayOf(date.day) = 7)
           /\ specifier.value \in 1 .. 7 =>
                resolved = Ok({specifier.value + IS_LAST_OCCURRENCE})
           /\ specifier.value > 7 =>
                pc = "rejected" /\ resolved.kind = "Expression"

\* February 3rd 2024 is a Saturday, and not the last one of its month
C9_Witness ==
    /\ pc = "matched"
    /\ specifier = LastPoint(Specifier("", "Point", 0, "", 0))
    /\ date = [year |-> 2024, month |-> 2, day |-> 3]
    /\ LastDateOn(7) = 24
    /\ matched = Ok(TRUE)

\* C10: resolution and validation agree. Every ordinal of a set the resolver
\* returned for a LastPoint, Weekday or NthOfMonth specifier is accepted by
\* the same field's validate_ordinal.
C10_ResolvedOrdinalsValidate ==
    (pc = "revalidated" /\ specifier.tag \in {"LastPoint", "Weekday", "NthOfMonth"})
        => validated = Ok(raw)

====
